---- MODULE Spec2Model ----
(***************************************************************************)
(* Shift-invariant distance / assignment wrappers of                       *)
(* BOWaves/utilities/wrappers.py.                                          *)
(*                                                                         *)
(* Arrays are sequences (a 2-D array is a sequence of rows).  Indices that *)
(* the program returns (labels, shifts) are 0-based as in the source.      *)
(* Inputs are integer valued; every real number the program can produce    *)
(* from them is kept exactly, in one of four closed forms (see Real        *)
(* numbers below), so that minima, ties and equalities are decided by      *)
(* exact arithmetic rather than by rounding.                               *)
(***************************************************************************)
EXTENDS Integers, Sequences, FiniteSets, TLC

(***************************************************************************)
(* Bounds of the explored inputs.                                          *)
(***************************************************************************)
MaxVal == 1
MaxLen == 3
MaxSamples == 2
MaxCentroids == 2

\* values of the centroids and of the samples of a batch of several samples;
\* values of the sample of a batch of one sample
CVals == 0..MaxVal

XVals == (0 - MaxVal)..MaxVal

(***************************************************************************)
(* Integer helpers.                                                        *)
(***************************************************************************)
Sgn(x) == IF x > 0 THEN 1 ELSE IF x < 0 THEN 0 - 1 ELSE 0

Max0(x) == IF x < 0 THEN 0 ELSE x

RECURSIVE SumTo(_, _)
SumTo(f, n) == IF n = 0 THEN 0 ELSE f[n] + SumTo(f, n - 1)

Dot(u, v) == SumTo([i \in 1..Len(u) |-> u[i] * v[i]], Len(u))

SqNorm(u) == Dot(u, u)

\* largest s with s*s dividing n (n >= 1)
SqPart(n) == CHOOSE s \in 1..n : /\ n % (s * s) = 0
                                 /\ \A t \in (s + 1)..n : n % (t * t) # 0

\* sign of R + S*sqrt(T), T >= 0
SgnRS(R, S, T) ==
    IF S = 0 \/ T = 0 THEN Sgn(R)
    ELSE IF R = 0 THEN Sgn(S)
    ELSE IF Sgn(R) = Sgn(S) THEN Sgn(R)
    ELSE IF R > 0 THEN Sgn(R * R - S * S * T)
    ELSE Sgn(S * S * T - R * R)

\* sign of a1/sqrt(q1) - a2/sqrt(q2), q1, q2 >= 1
SgnFrac(a1, q1, a2, q2) == Sgn(Sgn(a1) * a1 * a1 * q2 - Sgn(a2) * a2 * a2 * q1)

\* K + m*sqrt(p) - n*sqrt(q) = 0, p, q >= 1
ZeroKmn(K, m, p, n, q) ==
    LET sp == SqPart(p)
        sq == SqPart(q)
        pf == p \div (sp * sp)
        qf == q \div (sq * sq)
        mm == m * sp
        nn == n * sq
    IN  IF pf = 1 /\ qf = 1 THEN K + mm - nn = 0
        ELSE IF pf = 1 THEN nn = 0 /\ K + mm = 0
        ELSE IF qf = 1 THEN mm = 0 /\ K - nn = 0
        ELSE IF pf = qf THEN K = 0 /\ mm = nn
        ELSE K = 0 /\ mm = 0 /\ nn = 0

(***************************************************************************)
(* Real numbers.  Every value is non-negative and has one of the forms     *)
(*   "int"  : a                                                            *)
(*   "sqrt" : sqrt(a)                                                      *)
(*   "cos"  : 1 - a/sqrt(b)             (|a| <= sqrt(b))                   *)
(*   "vq"   : sqrt(a - 2*b/sqrt(c))                                        *)
(***************************************************************************)
IntR(k) == [form |-> "int", a |-> k, b |-> 0, c |-> 1]

SqrtR(n) == [form |-> "sqrt", a |-> n, b |-> 0, c |-> 1]

CosR(a, p) == [form |-> "cos", a |-> a, b |-> p, c |-> 1]

VqR(A, a, q) == [form |-> "vq", a |-> A, b |-> a, c |-> q]

\* r1 < r2 for two values of the same form
LessR(r1, r2) ==
    IF r1.form = "int" \/ r1.form = "sqrt" THEN r1.a < r2.a
    ELSE IF r1.form = "cos" THEN SgnFrac(r1.a, r1.b, r2.a, r2.b) = 1
    ELSE LET D  == r1.a - r2.a
             su == SgnFrac(r1.b, r1.c, r2.b, r2.c)
             R  == D * D * r1.c * r2.c - 4 * r1.b * r1.b * r2.c
                                      - 4 * r2.b * r2.b * r1.c
             s2 == SgnRS(R, 8 * r1.b * r2.b, r1.c * r2.c)  \* sign(D^2 - 4u^2)
         IN  IF su = 0 THEN D < 0
             ELSE IF su = 1 THEN D <= 0 \/ s2 = 0 - 1
             ELSE D < 0 /\ s2 = 1

\* the square of a value, as (U + V*sqrt(N))/D
Square(r) ==
    IF r.form = "int" THEN [U |-> r.a * r.a, V |-> 0, N |-> 1, D |-> 1]
    ELSE IF r.form = "sqrt" THEN [U |-> r.a, V |-> 0, N |-> 1, D |-> 1]
    ELSE IF r.form = "cos"
         THEN [U |-> r.b + r.a * r.a, V |-> 0 - 2 * r.a, N |-> r.b, D |-> r.b]
    ELSE [U |-> r.a * r.c, V |-> 0 - 2 * r.b, N |-> r.c, D |-> r.c]

\* r1 = r2 as real numbers, whatever their forms
SameR(r1, r2) ==
    LET s1 == Square(r1)
        s2 == Square(r2)
    IN  ZeroKmn(s2.D * s1.U - s1.D * s2.U, s2.D * s1.V, s1.N, s1.D * s2.V, s2.N)

SameRow(d1, d2) ==
    /\ Len(d1) = Len(d2)
    /\ \A k \in 1..Len(d1) : SameR(d1[k], d2[k])

(***************************************************************************)
(* Array helpers.                                                          *)
(***************************************************************************)
\* X[:, shift:shift+centroid_length]
Windows(Xa, shift, centroid_length) ==
    [k \in 1..Len(Xa) |-> SubSeq(Xa[k], shift + 1, shift + centroid_length)]

\* numpy.argmin of a 1-D array: index (1-based here) of the first minimum
RECURSIVE ArgminScan(_, _, _)
ArgminScan(d, i, best) ==
    IF i > Len(d) THEN best
    ELSE ArgminScan(d, i + 1, IF LessR(d[i], d[best]) THEN i ELSE best)

Argmin(d) == ArgminScan(d, 2, 1)

\* a 1-D array reshaped to a column, reshape(-1, 1), instead of a row
ReshapeColumn(arr) ==
    IF arr.ndim = 1 THEN [i \in 1..Len(arr.data) |-> <<arr.data[i]>>] ELSE arr.data

\* ndarray.reshape(1, -1) of a 1-D array
Reshape2D(arr) == IF arr.ndim = 1 THEN <<arr.data>> ELSE arr.data

(***************************************************************************)
(* Outcomes of a call: a return value, a raised exception, or sys.exit.    *)
(* done is the number of iterations of the shift loop that completed.      *)
(***************************************************************************)
Pending == [kind |-> "pending", err |-> "none", done |-> 0, val |-> <<>>]

Returned(done, val) == [kind |-> "returned", err |-> "none", done |-> done, val |-> val]

Raised(err, done) == [kind |-> "raised", err |-> err, done |-> done, val |-> <<>>]

Exited(done) == [kind |-> "exited", err |-> "SystemExit", done |-> done, val |-> <<>>]

(***************************************************************************)
(* Library primitives, as the wrappers call them.                          *)
(***************************************************************************)
\* row_norms, were the squared flag not passed on
row_norms_squared(W, sq) == [k \in 1..Len(W) |-> IntR(SqNorm(W[k]))]

\* sklearn.utils.extmath.row_norms(W, squared)
row_norms(W, sq) ==
    [k \in 1..Len(W) |-> IF sq THEN IntR(SqNorm(W[k])) ELSE SqrtR(SqNorm(W[k]))]

\* sklearn euclidean_distances(X=A, Y=W, Y_norm_squared=YY, squared=True)
euclidean_distances(A, W, YY) ==
    [c \in 1..Len(A) |->
        [k \in 1..Len(W) |-> IntR(Max0(SqNorm(A[c]) - 2 * Dot(A[c], W[k]) + YY[k]))]]

\* sklearn pairwise_distances_argmin_min(X=W, Y=Y,
\*     metric_kwargs={'squared': True, 'X_norm_squared': XX})
argmin_min_euclidean(W, Y, XX) ==
    LET d(k) == [c \in 1..Len(Y) |->
                    IntR(Max0(XX[k] - 2 * Dot(W[k], Y[c]) + SqNorm(Y[c])))]
    IN  [labels    |-> [k \in 1..Len(W) |-> Argmin(d(k)) - 1],
         distances |-> [k \in 1..Len(W) |-> d(k)[Argmin(d(k))]]]

\* cosine distance 1 - <x, y>/(|x| |y|); a zero vector is left unnormalised
CosineDistance(x, y) ==
    IF SqNorm(x) = 0 \/ SqNorm(y) = 0 THEN CosR(0, 1)
    ELSE CosR(Dot(x, y), SqNorm(x) * SqNorm(y))

\* sklearn pairwise_distances_argmin_min(X=W, Y=Y, metric='cosine')
argmin_min_cosine(W, Y) ==
    LET d(k) == [c \in 1..Len(Y) |-> CosineDistance(W[k], Y[c])]
    IN  [labels    |-> [k \in 1..Len(W) |-> Argmin(d(k)) - 1],
         distances |-> [k \in 1..Len(W) |-> d(k)[Argmin(d(k))]]]

\* a code book is a sequence of vectors v/sqrt(q)
Unscaled(Y) == [c \in 1..Len(Y) |-> [v |-> Y[c], q |-> 1]]

\* sklearn.preprocessing.normalize(Y, axis=1): rows of norm 0 are kept
normalize(Y) ==
    [c \in 1..Len(Y) |->
        [v |-> Y[c], q |-> IF SqNorm(Y[c]) = 0 THEN 1 ELSE SqNorm(Y[c])]]

\* scipy.cluster.vq.vq(obs, code_book): nearest code and its Euclidean distance
vq(W, B) ==
    LET d(k) == [c \in 1..Len(B) |->
                    VqR(SqNorm(W[k]) + (SqNorm(B[c].v) \div B[c].q),
                        Dot(W[k], B[c].v), B[c].q)]
    IN  [labels    |-> [k \in 1..Len(W) |-> Argmin(d(k)) - 1],
         distances |-> [k \in 1..Len(W) |-> d(k)[Argmin(d(k))]]]

(***************************************************************************)
(* si_row_norms                                                            *)
(***************************************************************************)
si_row_norms(Xa, centroid_length, sq) ==
    LET sample_length == Len(Xa[1])
        n_shifts == sample_length - centroid_length + 1
    IN  IF n_shifts < 0 THEN Raised("ValueError", 0)
        ELSE Returned(n_shifts,
                 [s \in 1..n_shifts |->
                     row_norms(Windows(Xa, s - 1, centroid_length), sq)])

(***************************************************************************)
(* si_euclidean_distances                                                  *)
(***************************************************************************)
RECURSIVE DistancesLoop(_, _, _, _, _, _)
DistancesLoop(C, Xa, N, n_shifts, shift, distances) ==
    IF shift = n_shifts THEN Returned(shift, distances)
    ELSE IF shift >= Len(N) THEN Raised("IndexError", shift)
    ELSE IF Len(N[shift + 1]) # Len(Xa) THEN Raised("ValueError", shift)
    ELSE DistancesLoop(C, Xa, N, n_shifts, shift + 1,
             Append(distances,
                    euclidean_distances(C, Windows(Xa, shift, Len(C[1])),
                                        N[shift + 1])))

si_euclidean_distances(C, Xa, X_norm_squared, sq) ==
    LET centroid_length == Len(C[1])
        n_features == Len(Xa[1])
        n_shifts == n_features - centroid_length + 1
    IN  IF n_shifts < 0 THEN Raised("ValueError", 0)
        ELSE DistancesLoop(C, Xa, X_norm_squared.data, n_shifts, 0, <<>>)

(***************************************************************************)
(* The assignment backends.                                                *)
(***************************************************************************)
Best(done, best_labels, best_distances) ==
    [kind |-> "ok", err |-> "none", done |-> done,
     best_labels |-> best_labels, best_distances |-> best_distances]

RECURSIVE EuclideanLoop(_, _, _, _, _, _, _)
EuclideanLoop(Xa, C, N, n_shifts, shift, best_labels, best_distances) ==
    IF shift = n_shifts THEN Best(shift, best_labels, best_distances)
    ELSE IF shift >= Len(N) THEN Raised("IndexError", shift)
    ELSE IF Len(N[shift + 1]) # Len(Xa) THEN Raised("ValueError", shift)
    ELSE LET r == argmin_min_euclidean(Windows(Xa, shift, Len(C[1])), C,
                                       N[shift + 1])
         IN  EuclideanLoop(Xa, C, N, n_shifts, shift + 1,
                           Append(best_labels, r.labels),
                           Append(best_distances, r.distances))

RECURSIVE CosineLoop(_, _, _, _, _, _)
CosineLoop(Xa, C, n_shifts, shift, best_labels, best_distances) ==
    IF shift = n_shifts THEN Best(shift, best_labels, best_distances)
    ELSE LET r == argmin_min_cosine(Windows(Xa, shift, Len(C[1])), C)
         IN  CosineLoop(Xa, C, n_shifts, shift + 1,
                        Append(best_labels, r.labels),
                        Append(best_distances, r.distances))

RECURSIVE VqLoop(_, _, _, _, _, _, _)
VqLoop(Xa, B, centroid_length, n_shifts, shift, best_labels, best_distances) ==
    IF shift = n_shifts THEN Best(shift, best_labels, best_distances)
    ELSE LET r == vq(Windows(Xa, shift, centroid_length), B)
         IN  VqLoop(Xa, B, centroid_length, n_shifts, shift + 1,
                    Append(best_labels, r.labels),
                    Append(best_distances, r.distances))

\* the reduction, were argmin to return the last minimum instead of the first
BestShiftLast(loop, n_samples) ==
    IF loop.kind # "ok" THEN loop
    ELSE IF Len(loop.best_distances) = 0 THEN Raised("ValueError", loop.done)
    ELSE LET n_shifts == Len(loop.best_distances)
             last(k) == CHOOSE s \in 1..n_shifts :
                            /\ \A t \in 1..n_shifts :
                                  ~LessR(loop.best_distances[t][k],
                                         loop.best_distances[s][k])
                            /\ \A t \in (s + 1)..n_shifts :
                                  LessR(loop.best_distances[s][k],
                                        loop.best_distances[t][k])
         IN  Returned(loop.done,
                 [labels    |-> [k \in 1..n_samples |-> loop.best_labels[last(k)][k]],
                  shifts    |-> [k \in 1..n_samples |-> last(k) - 1],
                  distances |-> [k \in 1..n_samples |->
                                    loop.best_distances[last(k)][k]]])

\* "For each sample, find best shift"
BestShift(loop, n_samples) ==
    IF loop.kind # "ok" THEN loop
    ELSE IF Len(loop.best_distances) = 0 THEN Raised("ValueError", loop.done)
    ELSE LET n_shifts == Len(loop.best_distances)
             col(k) == [s \in 1..n_shifts |-> loop.best_distances[s][k]]
             best_shifts == [k \in 1..n_samples |-> Argmin(col(k)) - 1]
         IN  Returned(loop.done,
                 [labels    |-> [k \in 1..n_samples |->
                                    loop.best_labels[best_shifts[k] + 1][k]],
                  shifts    |-> best_shifts,
                  distances |-> [k \in 1..n_samples |->
                                    loop.best_distances[best_shifts[k] + 1][k]]])

\* the direct backend, were the shift count n_features - centroid_length
si_pairwise_distances_argmin_min_short(Xa, cents, m, norms) ==
    LET N == IF m = "euclidean" THEN Reshape2D(norms) ELSE norms.data
        C == Reshape2D(cents)
        n_samples == Len(Xa)
        n_shifts == Len(Xa[1]) - Len(C[1])
    IN  IF n_shifts < 0 THEN Raised("ValueError", 0)
        ELSE IF m = "euclidean"
             THEN BestShift(EuclideanLoop(Xa, C, N, n_shifts, 0, <<>>, <<>>),
                            n_samples)
        ELSE IF m = "cosine"
             THEN BestShift(CosineLoop(Xa, C, n_shifts, 0, <<>>, <<>>), n_samples)
        ELSE Exited(0)

si_pairwise_distances_argmin_min(Xa, cents, m, norms) ==
    LET N == IF m = "euclidean" THEN Reshape2D(norms) ELSE norms.data
        C == Reshape2D(cents)
        n_samples == Len(Xa)
        sample_length == Len(Xa[1])
        centroid_length == Len(C[1])
        n_shifts == sample_length - centroid_length + 1
    IN  IF n_shifts < 0 THEN Raised("ValueError", 0)
        ELSE IF m = "euclidean"
             THEN BestShift(EuclideanLoop(Xa, C, N, n_shifts, 0, <<>>, <<>>),
                            n_samples)
        ELSE IF m = "cosine"
             THEN BestShift(CosineLoop(Xa, C, n_shifts, 0, <<>>, <<>>), n_samples)
        ELSE Exited(0)

si_pairwise_distances_argmin_min_toeplitz(Xa, cents, m, norms) ==
    LET N == IF m = "euclidean" THEN Reshape2D(norms) ELSE norms.data
        C == Reshape2D(cents)
        n_samples == Len(Xa)
        sample_length == Len(Xa[1])
        centroid_length == Len(C[1])
        n_shifts == sample_length - centroid_length + 1
    IN  IF n_shifts < 0 THEN Raised("ValueError", 0)
        ELSE IF m = "euclidean"
             THEN BestShift(EuclideanLoop(Xa, C, N, n_shifts, 0, <<>>, <<>>),
                            n_samples)
        ELSE IF m = "cosine"
             THEN BestShift(CosineLoop(Xa, C, n_shifts, 0, <<>>, <<>>), n_samples)
        ELSE Exited(0)

si_pairwise_distances_argmin_min_scipyvq(Xa, cents, m) ==
    LET C == Reshape2D(cents)
        n_samples == Len(Xa)
        sample_length == Len(Xa[1])
        centroid_length == Len(C[1])
        n_shifts == sample_length - centroid_length + 1
    IN  IF n_shifts < 0 THEN Raised("ValueError", 0)
        ELSE IF m = "euclidean"
             THEN BestShift(VqLoop(Xa, Unscaled(C), centroid_length, n_shifts, 0,
                                   <<>>, <<>>), n_samples)
        ELSE IF m = "cosine"
             THEN BestShift(VqLoop(Xa, normalize(C), centroid_length, n_shifts, 0,
                                   <<>>, <<>>), n_samples)
        ELSE Exited(0)

(***************************************************************************)
(* State: the entry point that is called, its arguments, and its outcome.  *)
(***************************************************************************)
VARIABLES fn, X, centroids, centroid_length, metric, x_squared_norms, squared, ret

vars == <<fn, X, centroids, centroid_length, metric, x_squared_norms, squared, ret>>

Metrics == {"euclidean", "cosine", "manhattan"}

Supported == {"euclidean", "cosine"}

NormBackends == {"si_pairwise_distances_argmin_min",
                 "si_pairwise_distances_argmin_min_toeplitz"}

Backends == NormBackends \cup {"si_pairwise_distances_argmin_min_scipyvq"}

Vectors(n, V) == [1..n -> V]

Batches == UNION {[1..1 -> Vectors(F, XVals)] : F \in 1..MaxLen}
           \cup UNION {[1..ns -> Vectors(F, CVals)] : ns \in 2..MaxSamples,
                                                     F \in 1..MaxLen}

Banks == UNION {[1..nc -> Vectors(L, CVals)] : nc \in 1..MaxCentroids, L \in 1..MaxLen}

Array1(v) == [ndim |-> 1, data |-> v]

Array2(m) == [ndim |-> 2, data |-> m]

NoArray == [ndim |-> 0, data |-> <<>>]

CentroidArgs == {Array2(B) : B \in Banks}
                \cup {Array1(v) : v \in UNION {Vectors(L, CVals) : L \in 1..MaxLen}}

\* the squared norms si_row_norms(X, centroid_length, squared=True) as numbers
SquaredNorms(Xa, L) ==
    LET r == si_row_norms(Xa, L, TRUE)
    IN  IF r.kind # "returned" THEN <<>>
        ELSE [s \in 1..Len(r.val) |-> [k \in 1..Len(Xa) |-> r.val[s][k].a]]

\* norm caches of the wrong shape: a row missing, a row too many, a sample too many
WrongNorms(Xa, L) ==
    LET N == SquaredNorms(Xa, L)
        zeros == [k \in 1..Len(Xa) |-> 0]
    IN  {Array2(Append(N, zeros))}
        \cup (IF Len(N) = 0 THEN {}
              ELSE {Array2(SubSeq(N, 1, Len(N) - 1)),
                    Array2([s \in 1..Len(N) |-> Append(N[s], 0)])})

\* a flat norm cache where there are several shifts: one row after the reshape
FlatWrongNorms(Xa, L) ==
    LET N == SquaredNorms(Xa, L)
    IN  IF Len(N) > 1 THEN {Array1(N[1])} ELSE {}

\* norm caches of the documented shape; a flat one when there is one shift
RightNorms(Xa, L) ==
    LET N == SquaredNorms(Xa, L)
    IN  {Array2(N)} \cup (IF Len(N) = 1 THEN {Array1(N[1])} ELSE {})

LengthOf(cents) == IF cents.ndim = 1 THEN Len(cents.data) ELSE Len(cents.data[1])

InitRowNorms ==
    /\ fn = "si_row_norms"
    /\ X \in Batches
    /\ centroid_length \in 1..MaxLen
    /\ squared \in BOOLEAN
    /\ centroids = NoArray
    /\ metric = "euclidean"
    /\ x_squared_norms = NoArray

InitDistances ==
    /\ fn = "si_euclidean_distances"
    /\ X \in Batches
    /\ centroids \in {Array2(B) : B \in Banks}
    /\ centroid_length = LengthOf(centroids)
    /\ squared \in BOOLEAN
    /\ metric = "euclidean"
    /\ x_squared_norms \in {Array2(SquaredNorms(X, centroid_length))}
                           \cup WrongNorms(X, centroid_length)

InitAssign ==
    /\ fn \in NormBackends
    /\ X \in Batches
    /\ centroids \in CentroidArgs
    /\ centroid_length = LengthOf(centroids)
    /\ metric \in Metrics
    /\ squared = TRUE
    /\ x_squared_norms \in RightNorms(X, centroid_length)
           \cup (IF metric = "euclidean"
                 THEN WrongNorms(X, centroid_length)
                          \cup FlatWrongNorms(X, centroid_length)
                 ELSE {})

InitVq ==
    /\ fn = "si_pairwise_distances_argmin_min_scipyvq"
    /\ X \in Batches
    /\ centroids \in CentroidArgs
    /\ centroid_length = LengthOf(centroids)
    /\ metric \in Metrics
    /\ squared = TRUE
    /\ x_squared_norms = NoArray

Init ==
    /\ ret = Pending
    /\ \/ InitRowNorms
       \/ InitDistances
       \/ InitAssign
       \/ InitVq

Args == <<fn, X, centroids, centroid_length, metric, x_squared_norms, squared>>

CallRowNorms ==
    /\ ret = Pending
    /\ fn = "si_row_norms"
    /\ ret' = si_row_norms(X, centroid_length, squared)
    /\ UNCHANGED Args

CallDistances ==
    /\ ret = Pending
    /\ fn = "si_euclidean_distances"
    /\ ret' = si_euclidean_distances(centroids.data, X, x_squared_norms, squared)
    /\ UNCHANGED Args

CallDirect ==
    /\ ret = Pending
    /\ fn = "si_pairwise_distances_argmin_min"
    /\ ret' = si_pairwise_distances_argmin_min(X, centroids, metric, x_squared_norms)
    /\ UNCHANGED Args

CallToeplitz ==
    /\ ret = Pending
    /\ fn = "si_pairwise_distances_argmin_min_toeplitz"
    /\ ret' = si_pairwise_distances_argmin_min_toeplitz(X, centroids, metric,
                                                        x_squared_norms)
    /\ UNCHANGED Args

CallScipyvq ==
    /\ ret = Pending
    /\ fn = "si_pairwise_distances_argmin_min_scipyvq"
    /\ ret' = si_pairwise_distances_argmin_min_scipyvq(X, centroids, metric)
    /\ UNCHANGED Args

Next ==
    \/ CallRowNorms
    \/ CallDistances
    \/ CallDirect
    \/ CallToeplitz
    \/ CallScipyvq

Spec == Init /\ [][Next]_vars

(***************************************************************************)
(* Vocabulary of the properties.                                           *)
(***************************************************************************)
Done == ret.kind # "pending"

Bank == Reshape2D(centroids)

NSamples == Len(X)

NFeatures == Len(X[1])

NShifts == NFeatures - centroid_length + 1

Window(k, s) == [i \in 1..centroid_length |-> X[k][s + i]]

SqDist(u, v) == SumTo([i \in 1..Len(u) |-> (u[i] - v[i]) * (u[i] - v[i])], Len(u))

\* the call is one the documentation allows: the centroids fit in the samples,
\* the metric is supported and the norm cache (if any) is that of si_row_norms
ValidShapes == centroid_length <= NFeatures

RightCache == x_squared_norms \in RightNorms(X, centroid_length)

ValidAssign == fn \in Backends /\ ValidShapes /\ metric \in Supported
               /\ (fn \in NormBackends => RightCache)

\* the distance each backend reports between a window w and a centroid c,
\* computed from the coordinates: squared Euclidean distance for the sklearn
\* backends, Euclidean distance for the vq backend; cosine distance for the
\* sklearn backends, Euclidean distance to c/|c| for the vq backend
BackendDist(f, m, w, c) ==
    IF m = "euclidean"
    THEN IF f \in NormBackends THEN IntR(SqDist(w, c)) ELSE SqrtR(SqDist(w, c))
    ELSE IF f \in NormBackends
         THEN IF SqNorm(w) = 0 \/ SqNorm(c) = 0 THEN CosR(0, 1)
              ELSE CosR(Dot(w, c), SqNorm(w) * SqNorm(c))
         ELSE IF SqNorm(c) = 0 THEN VqR(SqNorm(w), 0, 1)
              ELSE VqR(SqNorm(w) + 1, Dot(w, c), SqNorm(c))

\* the distance of the chosen metric itself, in the scale s ("int": squared,
\* "sqrt": unsquared) for the Euclidean metric
MetricDist(m, scale, w, c) ==
    IF m = "euclidean"
    THEN IF scale = "int" THEN IntR(SqDist(w, c)) ELSE SqrtR(SqDist(w, c))
    ELSE IF SqNorm(w) = 0 \/ SqNorm(c) = 0 THEN CosR(0, 1)
         ELSE CosR(Dot(w, c), SqNorm(w) * SqNorm(c))

Assign(f, Xa, cents, m, norms) ==
    IF f = "si_pairwise_distances_argmin_min"
    THEN si_pairwise_distances_argmin_min(Xa, cents, m, norms)
    ELSE IF f = "si_pairwise_distances_argmin_min_toeplitz"
    THEN si_pairwise_distances_argmin_min_toeplitz(Xa, cents, m, norms)
    ELSE si_pairwise_distances_argmin_min_scipyvq(Xa, cents, m)

SameOutcome(r1, r2) ==
    /\ r1.kind = r2.kind
    /\ r1.kind = "returned" =>
          /\ r1.val.labels = r2.val.labels
          /\ r1.val.shifts = r2.val.shifts
          /\ SameRow(r1.val.distances, r2.val.distances)

(***************************************************************************)
(* C1.  Backend equivalence: on a supported metric, with the norm cache of *)
(* si_row_norms(X, centroid_length, squared=True), the direct, Toeplitz    *)
(* and vq backends return the same labels, the same shifts and equal       *)
(* distances.                                                              *)
(***************************************************************************)
C1_BackendEquivalence ==
    (fn = "si_pairwise_distances_argmin_min" /\ ValidAssign /\ Done) =>
        /\ SameOutcome(ret, si_pairwise_distances_argmin_min_toeplitz(
                                X, centroids, metric, x_squared_norms))
        /\ SameOutcome(ret, si_pairwise_distances_argmin_min_scipyvq(
                                X, centroids, metric))

\* no centroid and no window is the zero vector
C2_NoZeroVector ==
    /\ \A c \in 1..Len(Bank) : SqNorm(Bank[c]) # 0
    /\ \A k \in 1..NSamples : \A t \in 0..(NShifts - 1) : SqNorm(Window(k, t)) # 0

\* the returned triple is consistent with, and minimal in, the metric's distance
C2_Consistent(scale) ==
    \A k \in 1..NSamples :
        LET l == ret.val.labels[k] + 1
            s == ret.val.shifts[k]
            d == MetricDist(metric, scale, Window(k, s), Bank[l])
        IN  /\ SameR(ret.val.distances[k], d)
            /\ \A t \in 0..(NShifts - 1) : \A c \in 1..Len(Bank) :
                  ~LessR(MetricDist(metric, scale, Window(k, t), Bank[c]), d)

(***************************************************************************)
(* C2.  Assignment-result consistency: for every sample, the returned      *)
(* distance is the distance, under the chosen metric, between the returned *)
(* centroid and the window at the returned shift, and no (centroid, shift) *)
(* pair is closer.  (For the Euclidean metric the distance is accepted in  *)
(* either scale, squared or unsquared; for the cosine metric the claim is  *)
(* read on non-zero windows and centroids, where the distance is defined.) *)
(***************************************************************************)
C2_AssignmentConsistency ==
    (ValidAssign /\ ret.kind = "returned"
        /\ (metric = "cosine" => C2_NoZeroVector)) =>
        (C2_Consistent("int") \/ C2_Consistent("sqrt"))

\* the example call: centroids [[1,0],[0,1]], one sample [0,1,0], Euclidean
C3_Example ==
    /\ fn \in Backends
    /\ X = <<(<<0, 1, 0>>)>>
    /\ centroids = Array2(<<(<<1, 0>>), (<<0, 1>>)>>)
    /\ metric = "euclidean"
    /\ fn \in NormBackends => RightCache

(***************************************************************************)
(* C3.  Shift tie-break: the returned shift is the smallest shift whose    *)
(* per-shift minimum distance is the overall minimum, and the label and    *)
(* the distance are those of that shift; centroids [[1,0],[0,1]] and the   *)
(* sample [0,1,0] under the Euclidean metric give shift 0, label 1,        *)
(* distance 0.                                                             *)
(***************************************************************************)
C3_ShiftTieBreak ==
    /\ (Done /\ ValidAssign) => ret.kind = "returned"
    /\ (fn \in Backends /\ ret.kind = "returned") =>
          \A k \in 1..NSamples :
              LET l == ret.val.labels[k] + 1
                  s == ret.val.shifts[k]
                  D(t, c) == BackendDist(fn, metric, Window(k, t), Bank[c])
              IN  /\ s \in 0..(NShifts - 1)
                  /\ l \in 1..Len(Bank)
                  /\ SameR(ret.val.distances[k], D(s, l))
                  /\ \A t \in 0..(NShifts - 1) : \A c \in 1..Len(Bank) :
                        /\ ~LessR(D(t, c), D(s, l))
                        /\ t < s => LessR(D(s, l), D(t, c))
    /\ (C3_Example /\ Done) =>
          /\ ret.kind = "returned"
          /\ ret.val.shifts = <<0>>
          /\ ret.val.labels = <<1>>
          /\ SameR(ret.val.distances[1], IntR(0))

C3_Witness ==
    /\ C3_Example
    /\ fn = "si_pairwise_distances_argmin_min_scipyvq"
    /\ ret.kind = "returned"
    /\ ret.val.shifts = <<0>>

(***************************************************************************)
(* C4.  Unsupported metric: a backend called with a metric other than      *)
(* 'euclidean' and 'cosine' raises an UnsupportedMetric error to its       *)
(* caller; it does not terminate the process and returns no result.        *)
(***************************************************************************)
C4_UnsupportedMetric ==
    (fn \in Backends /\ metric \notin Supported /\ Done) =>
        (ret.kind = "raised" /\ ret.err = "UnsupportedMetric")

(***************************************************************************)
(* C5.  Centroids longer than the samples: when centroid_length >          *)
(* n_features, every entry point fails with an error before any per-shift  *)
(* computation and returns nothing, not even an empty array.               *)
(***************************************************************************)
C5_ShapeMismatch ==
    (Done /\ centroid_length > NFeatures /\ metric \in Supported) =>
        (ret.kind = "raised" /\ ret.done = 0)

(***************************************************************************)
(* C6.  Squared flag: si_euclidean_distances returns squared Euclidean     *)
(* distances when squared = True and unsquared ones when squared = False.  *)
(***************************************************************************)
C6_SquaredFlag ==
    (fn = "si_euclidean_distances" /\ ret.kind = "returned"
        /\ x_squared_norms = Array2(SquaredNorms(X, centroid_length))) =>
        \A s \in 1..NShifts : \A c \in 1..Len(Bank) : \A k \in 1..NSamples :
            SameR(ret.val[s][c][k],
                  IF squared THEN IntR(SqDist(Bank[c], Window(k, s - 1)))
                  ELSE SqrtR(SqDist(Bank[c], Window(k, s - 1))))

\* the norm cache, after the flat reinterpretation, is (n_shifts, n_samples)
CacheShapeOK ==
    LET N == Reshape2D(x_squared_norms)
    IN  /\ Len(N) = NShifts
        /\ \A s \in 1..Len(N) : Len(N[s]) = NSamples

(***************************************************************************)
(* C7.  Norm-cache shape: with the Euclidean metric, a norm cache whose    *)
(* shape (after the flat 1-D reinterpretation) is not (n_shifts,           *)
(* n_samples) makes si_euclidean_distances and the direct and Toeplitz     *)
(* backends fail before any shift is computed.                             *)
(***************************************************************************)
C7_NormCacheShape ==
    (fn \in NormBackends \cup {"si_euclidean_distances"} /\ metric = "euclidean"
        /\ ValidShapes /\ Done /\ ~CacheShapeOK) =>
        (ret.kind = "raised" /\ ret.done = 0)

(***************************************************************************)
(* C8.  Single centroid: a backend given a one-dimensional centroid of     *)
(* length L does exactly what it does given the (1, L) bank of the same    *)
(* values, and every label it returns is 0.                                *)
(***************************************************************************)
C8_SingleCentroid ==
    (fn \in Backends /\ centroids.ndim = 1 /\ Done) =>
        /\ ret = Assign(fn, X, Array2(<<centroids.data>>), metric, x_squared_norms)
        /\ ValidAssign => ret.kind = "returned"
        /\ ret.kind = "returned" => \A k \in 1..NSamples : ret.val.labels[k] = 0

C8_Witness ==
    /\ fn = "si_pairwise_distances_argmin_min_toeplitz"
    /\ centroids.ndim = 1
    /\ centroid_length = 2
    /\ metric = "cosine"
    /\ ret.kind = "returned"
    /\ ret.val.labels = <<0, 0>>
    /\ ret.val.shifts = <<1, 0>>

C10_NormCorrectness ==
    /\ (fn = "si_row_norms" /\ Done /\ ValidShapes) => ret.kind = "returned"
    /\ (fn = "si_row_norms" /\ ret.kind = "returned") =>
          /\ Len(ret.val) = NShifts
          /\ \A s \in 1..NShifts :
                /\ Len(ret.val[s]) = NSamples
                /\ \A k \in 1..NSamples :
                      LET n == SumTo([i \in 1..centroid_length |->
                                         X[k][s - 1 + i] * X[k][s - 1 + i]],
                                     centroid_length)
                      IN  SameR(ret.val[s][k], IF squared THEN IntR(n) ELSE SqrtR(n))

C10_Witness ==
    /\ fn = "si_row_norms"
    /\ ret.kind = "returned"
    /\ ~squared
    /\ NSamples = 2
    /\ Len(ret.val) = 2
    /\ ret.val[1] = <<SqrtR(1), SqrtR(0)>>
    /\ ret.val[2] = <<SqrtR(2), SqrtR(1)>>

====
